---- MODULE Spec2Model ----
(***************************************************************************)
(* MemState: the transactional fact store (MemoryStore over the in-memory  *)
(* backend) with one registered sink hook.  Every action is one public     *)
(* call of MemoryStore executed under the store lock, so it is atomic.     *)
(* The specifications over threads run the same calls one storage call,    *)
(* counter access or hook invocation at a time, for the blocking store     *)
(* (MemoryStore) and the cooperative one (AsyncMemoryStore), each with two *)
(* registered hooks.                                                       *)
(***************************************************************************)
EXTENDS Integers, Sequences, FiniteSets, TLC

\* ------------------------------------------------------------------ bounds
MaxSeq == 2          \* journaled operations per behaviour (_seq never exceeds it)
MaxSteps == 2        \* largest `steps` argument given to rollback
MaxCalls == 3        \* calls begun per behaviour of the specifications over threads

\* ------------------------------------------------------------------ inputs
Null == "null"                       \* Python None, for string-valued fields
NoFact == [none |-> TRUE]            \* Python None, where a fact document is expected
FactIds == {"f1", "f2"}
Sessions == {"s1"}
SessionArgs == Sessions \cup {Null}
KeyVals == {"a", "b"}
NormVals == {"v1", "v2"}
RawVals == NormVals \cup {"raw1", "bad"}
TsCommit == 1                        \* Fact.ts of a fact handed to commit
TsUpdate == 2                        \* datetime.now() taken inside update
Threads == {"t1", "t2"}              \* callers: threads, or tasks of one event loop
Hooks == <<"h1", "h2">>              \* MemoryStore._hooks, in registration order
Variants == {"sync", "async"}        \* MemoryStore, AsyncMemoryStore

\* ------------------------------------------------------------------ state
VARIABLES
    store,      \* InMemoryStorage._store: insertion-ordered dict id -> document
    tx_log,     \* InMemoryStorage._tx_log
    seq,        \* MemoryStore._seq
    sink,       \* what the registered hook's collection holds, per fact id
    last,       \* observation: the most recent call, its outcome and the state before it
    prev,       \* observation: the previous call, when it was a successful commit
    run,        \* observation: stores before each of the latest consecutive journal
                \* entries successful mutations appended under one session
    scen,       \* observation: progress through commit F; delete F; rollback; rollback
    registry,   \* SchemaRegistry._schemas: the model registered for each type
    variant,    \* which store class the callers share
    lock,       \* MemoryStore._lock: the caller holding it, or Null
    thr,        \* per caller: the call it is inside and what is left of it
    calls,      \* calls begun so far
    hlog,       \* every hook invocation so far, in the order they were made
    jord,       \* observation: (call, fact id) of every journal append, in order
    eff,        \* observation: calls in the order of their first storage write
    ended       \* observation: how the call that ended most recently ended

vars == <<store, tx_log, seq, sink, last, prev, run, scen, registry,
          variant, lock, thr, calls, hlog, jord, eff, ended>>
thrvars == <<variant, lock, thr, calls, hlog, jord, eff, ended>>

\* ------------------------------------------------------------------ schemas.py
Fact(id, type, payload, session_id, ts) ==
    [id |-> id, type |-> type, payload |-> payload, source |-> Null,
     session_id |-> session_id, ts |-> ts]

TxEntry(sq, op, session_id, fact_id, before, after) ==
    [uuid |-> sq, session_id |-> session_id, seq |-> sq, op |-> op,
     fact_id |-> fact_id, fact_before |-> before, fact_after |-> after]

\* ------------------------------------------------------------------ registry
\* The registered models: "user" and "config" are models with fields
\* k: str | None and v: int; "note" has no registered schema.
Schemas == {"user", "config"}
ValidationFailed == [error |-> "ValidationFailed"]

\* model_validate followed by model_dump: a numeric string is coerced to the
\* number, anything else that is no number is rejected.
ModelValidate(payload) ==
    IF payload.v \in NormVals THEN payload
    ELSE IF payload.v = "raw1" THEN [payload EXCEPT !.v = "v1"]
    ELSE ValidationFailed

\* a validator whose failure is swallowed
ValidateLenient(typename, payload) ==
    IF typename \notin Schemas \/ ModelValidate(payload) = ValidationFailed
    THEN payload
    ELSE ModelValidate(payload)

\* the models a type can be registered with: "lax" is the model above, "text"
\* has v: str and returns every payload as it was given
Models == {"lax", "text"}
ValidateWith(model, payload) ==
    IF model = "lax" THEN ModelValidate(payload) ELSE payload

\* validation skipped
ValidateUnregistered(typename, payload) == payload

Validate(typename, payload) ==
    IF typename \notin DOMAIN registry THEN payload
    ELSE ValidateWith(registry[typename], payload)

\* MemoryStore._constraints
Constraints ==
    [user   |-> [singleton_key |-> "k", immutable |-> FALSE],
     config |-> [singleton_key |-> "k", immutable |-> TRUE]]

\* ------------------------------------------------------------------ backend
Ids(st) == {st[i].id : i \in 1..Len(st)}

Load(st, id) ==
    IF id \in Ids(st) THEN st[CHOOSE i \in 1..Len(st) : st[i].id = id] ELSE NoFact

Save(st, doc) ==
    IF doc.id \in Ids(st)
    THEN [i \in 1..Len(st) |-> IF st[i].id = doc.id THEN doc ELSE st[i]]
    ELSE Append(st, doc)

StorageDelete(st, id) == SelectSeq(st, LAMBDA d : d.id # id)

\* path is a sequence of keys; at most the payload is a nested dict
GetValueByPath(doc, path) ==
    IF path[1] \notin DOMAIN doc THEN Null
    ELSE IF Len(path) = 1 THEN doc[path[1]]
    ELSE IF path[1] # "payload" THEN Null
    ELSE IF path[2] \notin DOMAIN doc.payload THEN Null
    ELSE doc.payload[path[2]]

\* json_filters is a set of <<path, value>> pairs
StorageQuery(st, type_filter, json_filters) ==
    SelectSeq(st, LAMBDA d :
        /\ (type_filter # Null => d.type = type_filter)
        /\ \A f \in json_filters : GetValueByPath(d, f[1]) = f[2])

AppendTx(log, tx) == Append(log, tx)

Reverse(s) == [i \in 1..Len(s) |-> s[Len(s) + 1 - i]]

\* the tail read oldest first
GetTxLogOldestFirst(log, session_id, limit) ==
    LET filtered == SelectSeq(log, LAMBDA tx : tx.session_id = session_id)
    IN  SubSeq(filtered, 1, IF limit < Len(filtered) THEN limit ELSE Len(filtered))

GetTxLog(log, session_id, limit) ==
    LET filtered == SelectSeq(Reverse(log), LAMBDA tx : tx.session_id = session_id)
    IN  SubSeq(filtered, 1, IF limit < Len(filtered) THEN limit ELSE Len(filtered))

DeleteSessionIds(st, session_id) ==
    {st[i].id : i \in {j \in 1..Len(st) : st[j].session_id = session_id}}

\* durable facts deleted along with the session's
DeleteSessionAndDurable(st, session_id) ==
    SelectSeq(st, LAMBDA d : d.session_id # session_id /\ d.session_id # Null)

DeleteSession(st, session_id) == SelectSeq(st, LAMBDA d : d.session_id # session_id)

GetSessionFacts(st, session_id) == SelectSeq(st, LAMBDA d : d.session_id = session_id)

\* consumed entries left in the log
DeleteTxsKeepAll(log, tx_uuids) == log

DeleteTxs(log, tx_uuids) == SelectSeq(log, LAMBDA tx : tx.uuid \notin tx_uuids)

\* ------------------------------------------------------------------ hook
\* The registered sink: an upsert or a delete in its collection.
HookApply(snk, op, fact_id, data) ==
    IF op = "DELETE" THEN [snk EXCEPT ![fact_id] = NoFact]
    ELSE IF op = "DISCARD_SESSION" \/ data = NoFact THEN snk
    ELSE [snk EXCEPT ![fact_id] = data]

\* ------------------------------------------------------------------ MemoryStore
\* The outcome of one call: the state it leaves, how it returned, the number of
\* hook invocations it made, the session its journal entries went to and the
\* store as it was before each of those entries.
Result(st, log, sq, snk, outcome, ret, hooks, jsid, snaps) ==
    [store |-> st, tx_log |-> log, seq |-> sq, sink |-> snk, outcome |-> outcome,
     ret |-> ret, hooks |-> hooks, jsid |-> jsid, snaps |-> snaps]

StoreMap(st) == [id \in FactIds |-> Load(st, id)]

\* a call that raised before it touched anything
Raised(st, log, sq, snk, outcome) ==
    Result(st, log, sq, snk, outcome, Null, 0, Null, << >>)

LogTx(log, sq, op, session_id, fact_id, before, after) ==
    AppendTx(log, TxEntry(sq + 1, op, session_id, fact_id, before, after))

\* commit: the singleton lookup
SingletonMatches(st, typename, validated_payload) ==
    IF typename \in DOMAIN Constraints
    THEN LET key == Constraints[typename].singleton_key
             key_val == validated_payload[key]
         IN  IF key_val # Null
             THEN StorageQuery(st, typename, {<< <<"payload", key>>, key_val >>})
             ELSE << >>
    ELSE << >>

\* the immutable flag read the wrong way round
ConflictsInverted(matches, typename) ==
    matches # << >> /\ ~Constraints[typename].immutable

\* commit: a match under an immutable constraint raises ConflictError
Conflicts(matches, typename) ==
    matches # << >> /\ Constraints[typename].immutable

\* compensation that forgets the captured previous state
CommitCompensateDeleteOnly(st, op, previous_state, fact_id) ==
    StorageDelete(st, fact_id)

\* commit: the except HookError branch
CommitCompensate(st, op, previous_state, fact_id) ==
    IF op = "UPDATE" /\ previous_state # NoFact
    THEN Save(st, previous_state)
    ELSE StorageDelete(st, fact_id)

DoCommit(st, log, sq, snk, fact, session_id, ephemeral, hookOk) ==
    LET validated_payload == Validate(fact.type, fact.payload)
    IN
    IF validated_payload = ValidationFailed
    THEN Raised(st, log, sq, snk, "ValidationFailed")
    ELSE
    LET sid == IF session_id # Null THEN session_id ELSE fact.session_id
        matches == SingletonMatches(st, fact.type, validated_payload)
    IN
    IF Conflicts(matches, fact.type)
    THEN Raised(st, log, sq, snk, "ConflictError")
    ELSE
    LET fid == IF matches # << >> THEN matches[1].id ELSE fact.id
        previous_state == IF matches # << >> THEN matches[1] ELSE Load(st, fact.id)
        op == IF previous_state # NoFact THEN "UPDATE"
              ELSE IF ephemeral THEN "COMMIT_EPHEMERAL" ELSE "COMMIT"
        new_state == Fact(fid, fact.type, validated_payload, sid, fact.ts)
        st1 == Save(st, new_state)
        log1 == LogTx(log, sq, op, sid, fid, previous_state, new_state)
    IN
    IF hookOk
    THEN Result(st1, log1, sq + 1, HookApply(snk, op, fid, new_state),
                "ok", fid, 1, sid, <<StoreMap(st)>>)
    ELSE Result(CommitCompensate(st1, op, previous_state, fid), log1, sq + 1, snk,
                "HookError", Null, 1, sid, <<StoreMap(st)>>)

\* a merge in which the existing keys win
MergePayloadKeepOld(current_payload, patch_payload) ==
    [f \in DOMAIN current_payload \cup DOMAIN patch_payload |->
        IF f \in DOMAIN current_payload THEN current_payload[f] ELSE patch_payload[f]]

\* update: current_payload.update(patch_payload), on a deep copy
MergePayload(current_payload, patch_payload) ==
    [f \in DOMAIN current_payload \cup DOMAIN patch_payload |->
        IF f \in DOMAIN patch_payload THEN patch_payload[f] ELSE current_payload[f]]

DoUpdate(st, log, sq, snk, fact_id, patch_payload, hookOk) ==
    LET existing == Load(st, fact_id)
    IN
    IF existing = NoFact
    THEN Raised(st, log, sq, snk, "NotFound")
    ELSE
    LET validated_payload ==
            Validate(existing.type, MergePayload(existing.payload, patch_payload))
    IN
    IF validated_payload = ValidationFailed
    THEN Raised(st, log, sq, snk, "ValidationFailed")
    ELSE
    LET draft == [existing EXCEPT !.payload = validated_payload, !.ts = TsUpdate]
        st1 == Save(st, draft)
        log1 == LogTx(log, sq, "UPDATE", draft.session_id, fact_id, existing, draft)
    IN
    IF hookOk
    THEN Result(st1, log1, sq + 1, HookApply(snk, "UPDATE", fact_id, draft),
                "ok", fact_id, 1, draft.session_id, <<StoreMap(st)>>)
    ELSE Result(Save(st1, existing), log1, sq + 1, snk,
                "HookError", Null, 1, draft.session_id, <<StoreMap(st)>>)

\* an absent id deleted without complaint
DoDeleteSilent(st, log, sq, snk, session_id, fact_id, hookOk) ==
    LET existing == Load(st, fact_id)
        st1 == StorageDelete(st, fact_id)
        log1 == LogTx(log, sq, "DELETE", session_id, fact_id, existing, NoFact)
    IN
    IF hookOk
    THEN Result(st1, log1, sq + 1, HookApply(snk, "DELETE", fact_id, existing),
                "ok", fact_id, 1, session_id, <<StoreMap(st)>>)
    ELSE Result(st1, log1, sq + 1, snk,
                "HookError", Null, 1, session_id, <<StoreMap(st)>>)

DoDelete(st, log, sq, snk, session_id, fact_id, hookOk) ==
    LET existing == Load(st, fact_id)
    IN
    IF existing = NoFact
    THEN Raised(st, log, sq, snk, "NotFound")
    ELSE
    LET st1 == StorageDelete(st, fact_id)
        log1 == LogTx(log, sq, "DELETE", session_id, fact_id, existing, NoFact)
    IN
    IF hookOk
    THEN Result(st1, log1, sq + 1, HookApply(snk, "DELETE", fact_id, existing),
                "ok", fact_id, 1, session_id, <<StoreMap(st)>>)
    ELSE Result(st1, log1, sq + 1, snk,
                "HookError", Null, 1, session_id, <<StoreMap(st)>>)

\* promote_session: the loop over the candidates; selector is the set of fact
\* ids the selector accepts, failAt the hook invocation that raises (0: none)
RECURSIVE PromoteLoop(_, _, _, _, _, _)
PromoteLoop(acc, candidates, i, session_id, selector, failAt) ==
    IF i > Len(candidates) THEN acc
    ELSE IF candidates[i].id \notin selector
    THEN PromoteLoop(acc, candidates, i + 1, session_id, selector, failAt)
    ELSE
    LET before == candidates[i]
        fact_dict == [before EXCEPT !.session_id = Null]
        st1 == Save(acc.store, fact_dict)
        log1 == LogTx(acc.tx_log, acc.seq, "PROMOTE", session_id, before.id,
                      before, fact_dict)
        snaps1 == Append(acc.snaps, StoreMap(acc.store))
    IN
    IF acc.hooks + 1 = failAt
    THEN Result(st1, log1, acc.seq + 1, acc.sink, "HookError", << >>,
                acc.hooks + 1, session_id, snaps1)
    ELSE PromoteLoop(
            Result(st1, log1, acc.seq + 1,
                   HookApply(acc.sink, "PROMOTE", before.id, fact_dict),
                   "ok", Append(acc.ret, before.id), acc.hooks + 1, session_id, snaps1),
            candidates, i + 1, session_id, selector, failAt)

\* the selector ignored
DoPromoteAll(st, log, sq, snk, session_id, selector, failAt) ==
    PromoteLoop(Result(st, log, sq, snk, "ok", << >>, 0, session_id, << >>),
                GetSessionFacts(st, session_id), 1, session_id, FactIds, failAt)

DoPromote(st, log, sq, snk, session_id, selector, failAt) ==
    PromoteLoop(Result(st, log, sq, snk, "ok", << >>, 0, session_id, << >>),
                GetSessionFacts(st, session_id), 1, session_id, selector, failAt)

DoDiscard(st, log, sq, snk, session_id) ==
    LET deleted_ids == DeleteSessionIds(st, session_id)
        st1 == DeleteSession(st, session_id)
    IN
    IF deleted_ids # {}
    THEN Result(st1, LogTx(log, sq, "DISCARD_SESSION", session_id, Null, NoFact, NoFact),
                sq + 1, snk, "ok", Cardinality(deleted_ids), 0, session_id,
                <<StoreMap(st)>>)
    ELSE Result(st1, log, sq, snk, "ok", 0, 0, session_id, << >>)

\* rollback: the loop over the fetched entries, newest first; failAt is the
\* entry whose hook invocation raises (0: none)
RECURSIVE RollbackLoop(_, _, _, _)
RollbackLoop(acc, logs, i, failAt) ==
    IF i > Len(logs) THEN acc
    ELSE
    LET entry == logs[i]
        op == entry.op
        fid == entry.fact_id
        restores == /\ op \in {"COMMIT", "COMMIT_EPHEMERAL", "UPDATE", "PROMOTE", "DELETE"}
                    /\ entry.fact_before # NoFact
        removes == /\ op \in {"COMMIT", "COMMIT_EPHEMERAL", "UPDATE", "PROMOTE"}
                   /\ entry.fact_before = NoFact
                   /\ fid # Null
        st1 == IF restores THEN Save(acc.store, entry.fact_before)
               ELSE IF removes THEN StorageDelete(acc.store, fid)
               ELSE acc.store
        hop == IF op = "DELETE" THEN "COMMIT" ELSE IF restores THEN "UPDATE" ELSE "DELETE"
        hdata == IF restores THEN entry.fact_before ELSE NoFact
    IN
    IF ~(restores \/ removes)
    THEN RollbackLoop(acc, logs, i + 1, failAt)
    ELSE IF i = failAt
    THEN [acc EXCEPT !.store = st1, !.outcome = "HookError", !.hooks = @ + 1]
    ELSE RollbackLoop(
            [acc EXCEPT !.store = st1, !.hooks = @ + 1,
                        !.sink = HookApply(@, hop, fid, hdata)],
            logs, i + 1, failAt)

\* every entry of the session dropped, whatever was fetched
DoRollbackDropSession(st, log, sq, snk, session_id, steps, failAt) ==
    IF steps <= 0
    THEN Result(st, log, sq, snk, "ok", Null, 0, Null, << >>)
    ELSE
    LET logs == GetTxLog(log, session_id, steps)
        acc == RollbackLoop(Result(st, log, sq, snk, "ok", Null, 0, Null, << >>),
                            logs, 1, failAt)
    IN
    IF acc.outcome = "ok"
    THEN [acc EXCEPT !.tx_log = SelectSeq(log, LAMBDA tx : tx.session_id # session_id)]
    ELSE acc

\* DISCARD_SESSION entries left in the journal
DoRollbackKeepDiscard(st, log, sq, snk, session_id, steps, failAt) ==
    IF steps <= 0
    THEN Result(st, log, sq, snk, "ok", Null, 0, Null, << >>)
    ELSE
    LET logs == GetTxLog(log, session_id, steps)
        acc == RollbackLoop(Result(st, log, sq, snk, "ok", Null, 0, Null, << >>),
                            logs, 1, failAt)
    IN
    IF acc.outcome = "ok"
    THEN [acc EXCEPT !.tx_log =
            DeleteTxs(log, {logs[i].uuid : i \in {j \in 1..Len(logs) :
                                                    logs[j].op # "DISCARD_SESSION"}})]
    ELSE acc

DoRollback(st, log, sq, snk, session_id, steps, failAt) ==
    IF steps <= 0
    THEN Result(st, log, sq, snk, "ok", Null, 0, Null, << >>)
    ELSE
    LET logs == GetTxLog(log, session_id, steps)
        acc == RollbackLoop(Result(st, log, sq, snk, "ok", Null, 0, Null, << >>),
                            logs, 1, failAt)
    IN
    IF acc.outcome = "ok"
    THEN [acc EXCEPT !.tx_log = DeleteTxs(log, {logs[i].uuid : i \in 1..Len(logs)})]
    ELSE acc

\* ------------------------------------------------------------------ observation
\* What the properties below read about the history of calls.  None of it is
\* read by the operations above.
NoPrev == [set |-> FALSE]
NoRun == [sid |-> Null, snaps |-> << >>]
NoScen == [stage |-> 0, fid |-> Null, sid |-> Null, doc |-> NoFact, fresh |-> FALSE]
Mutations == {"commit", "update", "delete", "promote_session"}

LastN(s, n) == IF Len(s) <= n THEN s ELSE SubSeq(s, Len(s) - n + 1, Len(s))

Call(op, fid, sid, typ, payload, rejected, steps, r) ==
    [op |-> op, outcome |-> r.outcome, ret |-> r.ret, fid |-> fid, sid |-> sid,
     typ |-> typ, payload |-> payload, rejected |-> rejected, steps |-> steps,
     hooks |-> r.hooks, pre_store |-> store, pre_log |-> tx_log, selector |-> FactIds,
     expect |-> IF /\ op = "rollback" /\ r.outcome = "ok" /\ steps >= 1
                   /\ sid = run.sid /\ steps <= Len(run.snaps)
                THEN run.snaps[Len(run.snaps) - steps + 1]
                ELSE NoFact]

ObservePrev(c) ==
    IF /\ c.op = "commit" /\ c.outcome = "ok"
       /\ c.typ \in DOMAIN Constraints
       /\ c.payload[Constraints[c.typ].singleton_key] # Null
    THEN [set |-> TRUE, ret |-> c.ret, typ |-> c.typ,
          key |-> c.payload[Constraints[c.typ].singleton_key]]
    ELSE NoPrev

ObserveRun(c, r) ==
    IF /\ c.op \in Mutations /\ r.outcome = "ok"
       /\ r.jsid \in Sessions /\ r.snaps # << >>
    THEN [sid |-> r.jsid,
          snaps |-> LastN((IF run.sid = r.jsid THEN run.snaps ELSE << >>) \o r.snaps,
                          MaxSteps)]
    ELSE NoRun

ObserveScen(c, r) ==
    IF c.op = "commit" /\ r.outcome = "ok" /\ r.jsid \in Sessions
    THEN [stage |-> 1, fid |-> r.ret, sid |-> r.jsid, doc |-> NoFact,
          fresh |-> Load(store, r.ret) = NoFact]
    ELSE IF /\ c.op = "delete" /\ r.outcome = "ok" /\ scen.stage = 1
            /\ c.fid = scen.fid /\ c.sid = scen.sid
    THEN [scen EXCEPT !.stage = 2, !.doc = Load(store, c.fid)]
    ELSE IF /\ c.op = "rollback" /\ r.outcome = "ok" /\ scen.stage \in {2, 3}
            /\ c.sid = scen.sid /\ c.steps = 1
    THEN [scen EXCEPT !.stage = @ + 1]
    ELSE NoScen

Apply(c, r) ==
    /\ store' = r.store
    /\ tx_log' = r.tx_log
    /\ seq' = r.seq
    /\ sink' = r.sink
    /\ last' = c
    /\ prev' = ObservePrev(last)
    /\ run' = ObserveRun(c, r)
    /\ scen' = ObserveScen(c, r)
    /\ UNCHANGED registry
    /\ UNCHANGED thrvars

\* ------------------------------------------------------------------ actions
\* An action is one call; P names the sets its arguments are drawn from and
\* the number of journal entries a behaviour may write.
\* (type, payload) of the facts handed to commit: for the mutable singleton
\* type every key with a plain value and one key with every kind of value
\* (another number, a numeric string, no number); fewer for the other types
Payloads ==
    [k : KeyVals \cup {Null}, v : {"v1"}] \cup [k : {"a"}, v : RawVals]
Facts ==
    {<<"user", p>> : p \in Payloads}
        \cup {<<"config", p>> : p \in [k : {"a", Null}, v : {"v1"}] \cup [k : {"a"}, v : {"v2", "bad"}]}
        \cup {<<"note", p>> : p \in [k : {"a"}, v : {"v1", "bad"}]}
\* patch["payload"] handed to update
Patches ==
    {<< >>} \cup {[k |-> x] : x \in KeyVals \cup {Null}} \cup {[v |-> x] : x \in RawVals}
        \cup {[k |-> "a", v |-> "v2"]}
\* (fact.session_id, session_id, ephemeral) handed to commit
Modes ==
    {<<Null, Null, FALSE>>} \cup UNION {{<<Null, s, FALSE>>, <<s, Null, TRUE>>} : s \in Sessions}
\* selectors handed to promote_session, as the set of ids they accept
Selectors == {FactIds, {"f1"}}
\* (steps, the entry whose hook invocation raises) for rollback
StepArgs == {sf \in (-1..MaxSteps) \X (0..MaxSteps) : sf[2] <= sf[1] \/ sf[2] = 0}

Idle == [op |-> "idle", call |-> 0, sid |-> Null, plan |-> << >>, onfail |-> << >>,
         tmp |-> 0, wrote |-> FALSE, outcome |-> "ok", ret |-> Null]
NoneEnded == [call |-> 0, op |-> "idle", sid |-> Null, how |-> "ok", ret |-> Null,
              wrote |-> FALSE, pending |-> FALSE]

InitStore ==
    /\ store = << >>
    /\ tx_log = << >>
    /\ seq = 0
    /\ registry = [t \in Schemas |-> "lax"]
    /\ sink = [id \in FactIds |-> NoFact]
    /\ last = [op |-> "init", outcome |-> "ok", ret |-> Null, fid |-> Null,
               sid |-> Null, typ |-> Null, payload |-> NoFact, rejected |-> FALSE,
               steps |-> 0, hooks |-> 0, pre_store |-> << >>, pre_log |-> << >>,
               selector |-> FactIds, expect |-> NoFact]
    /\ prev = NoPrev
    /\ run = NoRun
    /\ scen = NoScen
    /\ lock = Null
    /\ thr = [t \in Threads |-> Idle]
    /\ calls = 0
    /\ hlog = << >>
    /\ jord = << >>
    /\ eff = << >>
    /\ ended = NoneEnded

Init ==
    /\ InitStore
    /\ variant = "sync"

Commit(P) ==
    /\ seq < P.depth
    /\ \E id \in FactIds, tp \in P.facts, mode \in P.modes, hookOk \in P.hooks :
        LET typ == tp[1]
            payload == tp[2]
            fact == Fact(id, typ, payload, mode[1], TsCommit)
            r == DoCommit(store, tx_log, seq, sink, fact, mode[2], mode[3], hookOk)
            rejected == /\ typ \in DOMAIN registry
                        /\ ValidateWith(registry[typ], payload) = ValidationFailed
        IN  Apply(Call("commit", id, IF mode[2] # Null THEN mode[2] ELSE mode[1], typ,
                       IF rejected THEN NoFact
                       ELSE IF typ \in DOMAIN registry
                       THEN ValidateWith(registry[typ], payload)
                       ELSE ModelValidate(payload),
                       rejected, 0, r), r)

Update(P) ==
    /\ seq < P.depth
    /\ \E fact_id \in FactIds, patch \in P.patches, hookOk \in P.hooks :
        LET r == DoUpdate(store, tx_log, seq, sink, fact_id, patch, hookOk)
            existing == Load(store, fact_id)
            rejected == /\ existing # NoFact
                        /\ existing.type \in DOMAIN registry
                        /\ ValidateWith(registry[existing.type],
                                        MergePayload(existing.payload, patch))
                             = ValidationFailed
        IN  Apply(Call("update", fact_id, Null, Null, patch, rejected, 0, r), r)

Delete(P) ==
    /\ seq < P.depth
    /\ \E session_id \in P.sargs, fact_id \in FactIds, hookOk \in P.hooks :
        LET r == DoDelete(store, tx_log, seq, sink, session_id, fact_id, hookOk)
        IN  Apply(Call("delete", fact_id, session_id, Null, NoFact, FALSE, 0, r), r)

PromoteSession(P) ==
    /\ seq <= P.depth
    /\ \E session_id \in P.sessions, selector \in Selectors, failAt \in P.fails :
        /\ seq + Len(GetSessionFacts(store, session_id)) <= P.depth
        /\ LET r == DoPromote(store, tx_log, seq, sink, session_id, selector, failAt)
               c == Call("promote_session", Null, session_id, Null, NoFact, FALSE, 0, r)
           IN  Apply([c EXCEPT !.selector = selector], r)

DiscardSession(P) ==
    /\ seq < P.depth
    /\ \E session_id \in P.sessions :
        LET r == DoDiscard(store, tx_log, seq, sink, session_id)
        IN  Apply(Call("discard_session", Null, session_id, Null, NoFact, FALSE, 0, r), r)

\* register_schema without a constraint: the model of the type is replaced
RegisterSchema(types, models) ==
    \E typename \in types, model \in models :
        LET r == Raised(store, tx_log, seq, sink, "ok")
            c == Call("register_schema", Null, Null, typename, NoFact, FALSE, 0, r)
        IN  /\ registry' = [t \in DOMAIN registry \cup {typename} |->
                                IF t = typename THEN model ELSE registry[t]]
            /\ last' = c
            /\ prev' = ObservePrev(last)
            /\ run' = ObserveRun(c, r)
            /\ scen' = ObserveScen(c, r)
            /\ UNCHANGED <<store, tx_log, seq, sink>>
            /\ UNCHANGED thrvars

\* rollback appends nothing to the journal
Rollback(P) ==
    /\ seq <= P.depth
    /\ \E session_id \in P.sessions, sf \in P.steps :
        LET steps == sf[1]
            failAt == sf[2]
            r == DoRollback(store, tx_log, seq, sink, session_id, steps, failAt)
        IN  Apply(Call("rollback", Null, session_id, Null, NoFact, FALSE, steps, r), r)

\* Every call with every argument.
Wide ==
    [depth |-> MaxSeq, facts |-> Facts, modes |-> Modes, sessions |-> Sessions,
     sargs |-> SessionArgs, hooks |-> BOOLEAN, patches |-> Patches, fails |-> 0..Cardinality(FactIds),
     steps |-> StepArgs]

Next ==
    \/ Commit(Wide)
    \/ Update(Wide)
    \/ Delete(Wide)
    \/ PromoteSession(Wide)
    \/ DiscardSession(Wide)
    \/ Rollback(Wide)

Spec == Init /\ [][Next]_vars

\* One session's history: calls on the mutable singleton type and on the
\* unregistered type, in and out of the session, with and without hook failures.
MaxSeqSession == 3
InSession ==
    [depth |-> MaxSeqSession,
     facts |-> {<<"user", [k |-> "a", v |-> "v1"]>>, <<"user", [k |-> "b", v |-> "v2"]>>,
                <<"note", [k |-> Null, v |-> "v1"]>>},
     modes |-> Modes \ {<<Null, Null, FALSE>>}, sessions |-> Sessions,
     sargs |-> SessionArgs, hooks |-> {TRUE},
     patches |-> {[v |-> "v2"], [k |-> "a"]},
     fails |-> 0..Cardinality(FactIds), steps |-> StepArgs]

NextSession ==
    \/ Commit(InSession)
    \/ Update(InSession)
    \/ Delete(InSession)
    \/ PromoteSession(InSession)
    \/ DiscardSession(InSession)
    \/ Rollback(InSession)

SpecSession == Init /\ [][NextSession]_vars

\* Long histories of commits and updates on the mutable singleton type.
MaxSeqSingleton == 5
OnSingleton ==
    [depth |-> MaxSeqSingleton,
     facts |-> {<<"user", [k |-> "a", v |-> "v1"]>>, <<"user", [k |-> "a", v |-> "v2"]>>,
                <<"user", [k |-> "b", v |-> "v1"]>>},
     modes |-> {<<Null, Null, FALSE>>}, sessions |-> Sessions, sargs |-> {Null},
     hooks |-> {TRUE},
     patches |-> {[k |-> "a"], [v |-> "v2"]},
     fails |-> {0}, steps |-> StepArgs]

NextSingleton ==
    \/ Commit(OnSingleton)
    \/ Update(OnSingleton)

SpecSingleton == Init /\ [][NextSingleton]_vars

\* commit, update and delete only
NextCUD ==
    \/ Commit(Wide)
    \/ Update(Wide)
    \/ Delete(Wide)

SpecCUD == Init /\ [][NextCUD]_vars

\* The life of session-bound facts: durable and ephemeral commits in two
\* sessions, promotion with and without a selector, discard.
MaxSeqLifecycle == 4
TwoSessions == {"s1", "s2"}
InLifecycle ==
    [depth |-> MaxSeqLifecycle,
     facts |-> {<<"note", [k |-> "a", v |-> "v1"]>>, <<"user", [k |-> "b", v |-> "v2"]>>},
     modes |-> {<<Null, Null, FALSE>>, <<Null, "s1", TRUE>>, <<"s2", Null, TRUE>>},
     sessions |-> TwoSessions, sargs |-> {Null}, hooks |-> {TRUE}, patches |-> {},
     fails |-> {0, 1}, steps |-> {}]

NextLifecycle ==
    \/ Commit(InLifecycle)
    \/ PromoteSession(InLifecycle)
    \/ DiscardSession(InLifecycle)

SpecLifecycle == Init /\ [][NextLifecycle]_vars

\* Commits and updates of one singleton type whose model is re-registered.
MaxSeqRegistry == 3
OnRegistry ==
    [depth |-> MaxSeqRegistry,
     facts |-> {<<"user", [k |-> "a", v |-> x]>> : x \in {"v1", "raw1", "bad"}},
     modes |-> {<<Null, Null, FALSE>>}, sessions |-> Sessions, sargs |-> {Null},
     hooks |-> BOOLEAN,
     patches |-> {[v |-> "raw1"], [v |-> "bad"], [k |-> "b"]},
     fails |-> {0}, steps |-> {}]

NextRegistry ==
    \/ Commit(OnRegistry)
    \/ Update(OnRegistry)
    \/ RegisterSchema({"user"}, Models)

SpecRegistry == Init /\ [][NextRegistry]_vars

\* ------------------------------------------------------------------ threads
\* What is left of a call in progress is a sequence of steps: one storage
\* call, one access to _seq or one hook invocation each.  Every call reads
\* storage before its first write, so its steps are known once it has read.
PSave(doc) == [k |-> "save", doc |-> doc]
PDelete(id) == [k |-> "delete", id |-> id]
PDeleteSession(session_id) == [k |-> "delete_session", sid |-> session_id]
PDeleteTxs(tx_uuids) == [k |-> "delete_txs", uuids |-> tx_uuids]
PSeqLoad == [k |-> "seq_load"]
PSeqStore == [k |-> "seq_store"]
PAppendTx(uuid, op, session_id, fact_id, before, after) ==
    [k |-> "append_tx", uuid |-> uuid, op |-> op, sid |-> session_id, fid |-> fact_id,
     before |-> before, after |-> after]
PHook(h, op, fact_id, data) ==
    [k |-> "hook", h |-> h, op |-> op, fid |-> fact_id, data |-> data]

\* _log_tx: self._seq += 1 loads and stores the counter, TxEntry(seq=self._seq)
\* reads it again, then storage.append_tx
LogTxSteps(uuid, op, session_id, fact_id, before, after) ==
    <<PSeqLoad, PSeqStore, PAppendTx(uuid, op, session_id, fact_id, before, after)>>

\* the hooks taken last to first
NotifyStepsReversed(op, fact_id, data) ==
    [h \in 1..Len(Hooks) |-> PHook(Len(Hooks) + 1 - h, op, fact_id, data)]

\* _notify_hooks: every hook in registration order
NotifySteps(op, fact_id, data) == [h \in 1..Len(Hooks) |-> PHook(h, op, fact_id, data)]

\* TxEntry.uuid of the n-th entry a call writes
Uuid(call, n) == 10 * call + n

Plan(raise, steps, onfail, ret) ==
    [raise |-> raise, plan |-> steps, onfail |-> onfail, ret |-> ret]

CommitPlan(st, call, fact, session_id, ephemeral) ==
    LET validated_payload == Validate(fact.type, fact.payload)
    IN
    IF validated_payload = ValidationFailed
    THEN Plan("ValidationFailed", << >>, << >>, Null)
    ELSE
    LET sid == IF session_id # Null THEN session_id ELSE fact.session_id
        matches == SingletonMatches(st, fact.type, validated_payload)
    IN
    IF Conflicts(matches, fact.type)
    THEN Plan("ConflictError", << >>, << >>, Null)
    ELSE
    LET fid == IF matches # << >> THEN matches[1].id ELSE fact.id
        previous_state == IF matches # << >> THEN matches[1] ELSE Load(st, fact.id)
        op == IF previous_state # NoFact THEN "UPDATE"
              ELSE IF ephemeral THEN "COMMIT_EPHEMERAL" ELSE "COMMIT"
        new_state == Fact(fid, fact.type, validated_payload, sid, fact.ts)
    IN
    Plan(Null,
         <<PSave(new_state)>>
             \o LogTxSteps(Uuid(call, 1), op, sid, fid, previous_state, new_state)
             \o NotifySteps(op, fid, new_state),
         <<CASE op = "UPDATE" /\ previous_state # NoFact -> PSave(previous_state)
             [] OTHER -> PDelete(fid)>>,
         fid)

UpdatePlan(st, call, fact_id, patch_payload) ==
    LET existing == Load(st, fact_id)
    IN
    IF existing = NoFact
    THEN Plan("NotFound", << >>, << >>, Null)
    ELSE
    LET validated_payload ==
            Validate(existing.type, MergePayload(existing.payload, patch_payload))
    IN
    IF validated_payload = ValidationFailed
    THEN Plan("ValidationFailed", << >>, << >>, Null)
    ELSE
    LET draft == [existing EXCEPT !.payload = validated_payload, !.ts = TsUpdate]
    IN
    Plan(Null,
         <<PSave(draft)>>
             \o LogTxSteps(Uuid(call, 1), "UPDATE", draft.session_id, fact_id, existing, draft)
             \o NotifySteps("UPDATE", fact_id, draft),
         <<PSave(existing)>>,
         fact_id)

DeletePlan(st, call, session_id, fact_id) ==
    LET existing == Load(st, fact_id)
    IN
    IF existing = NoFact
    THEN Plan("NotFound", << >>, << >>, Null)
    ELSE Plan(Null,
              <<PDelete(fact_id)>>
                  \o LogTxSteps(Uuid(call, 1), "DELETE", session_id, fact_id, existing, NoFact)
                  \o NotifySteps("DELETE", fact_id, existing),
              << >>,
              fact_id)

RECURSIVE PromoteSteps(_, _, _, _, _)
PromoteSteps(candidates, i, call, session_id, selector) ==
    IF i > Len(candidates) THEN << >>
    ELSE IF candidates[i].id \notin selector
    THEN PromoteSteps(candidates, i + 1, call, session_id, selector)
    ELSE
    LET before == candidates[i]
        fact_dict == [before EXCEPT !.session_id = Null]
    IN  <<PSave(fact_dict)>>
            \o LogTxSteps(Uuid(call, i), "PROMOTE", session_id, before.id, before, fact_dict)
            \o NotifySteps("PROMOTE", before.id, fact_dict)
            \o PromoteSteps(candidates, i + 1, call, session_id, selector)

PromotePlan(st, call, session_id, selector) ==
    LET candidates == GetSessionFacts(st, session_id)
        accepted == SelectSeq(candidates, LAMBDA d : d.id \in selector)
    IN  Plan(Null, PromoteSteps(candidates, 1, call, session_id, selector), << >>,
             [i \in 1..Len(accepted) |-> accepted[i].id])

RECURSIVE RollbackSteps(_, _)
RollbackSteps(logs, i) ==
    IF i > Len(logs) THEN << >>
    ELSE
    LET entry == logs[i]
        op == entry.op
        fid == entry.fact_id
        rest == RollbackSteps(logs, i + 1)
    IN
    IF op \in {"COMMIT", "COMMIT_EPHEMERAL", "UPDATE", "PROMOTE"}
    THEN IF entry.fact_before # NoFact
         THEN <<PSave(entry.fact_before)>>
                  \o NotifySteps("UPDATE", fid, entry.fact_before) \o rest
         ELSE IF fid # Null
         THEN <<PDelete(fid)>> \o NotifySteps("DELETE", fid, NoFact) \o rest
         ELSE rest
    ELSE IF op = "DELETE" /\ entry.fact_before # NoFact
    THEN <<PSave(entry.fact_before)>>
             \o NotifySteps("COMMIT", fid, entry.fact_before) \o rest
    ELSE rest

\* the fetched entries inverted oldest first
RollbackPlanOldestFirst(log, session_id, steps) ==
    IF steps <= 0
    THEN Plan(Null, << >>, << >>, Null)
    ELSE LET logs == GetTxLog(log, session_id, steps)
         IN  Plan(Null,
                  RollbackSteps(Reverse(logs), 1)
                      \o <<PDeleteTxs({logs[i].uuid : i \in 1..Len(logs)})>>,
                  << >>, Null)

RollbackPlan(log, session_id, steps) ==
    IF steps <= 0
    THEN Plan(Null, << >>, << >>, Null)
    ELSE LET logs == GetTxLog(log, session_id, steps)
         IN  Plan(Null,
                  RollbackSteps(logs, 1)
                      \o <<PDeleteTxs({logs[i].uuid : i \in 1..Len(logs)})>>,
                  << >>, Null)

\* discard_session starts with storage.delete_session; what follows depends on
\* what that call returns
DiscardPlan(session_id) == Plan(Null, <<PDeleteSession(session_id)>>, << >>, 0)

\* the marker fact AsyncMemoryStore.discard_session hands to the hooks
SessionMarker(session_id) == Fact("session", "session", << >>, session_id, TsCommit)

\* the hooks notified before the journal entry is written
DiscardRestNotifyFirst(v, call, session_id, deleted_ids) ==
    IF deleted_ids = {} THEN << >>
    ELSE (IF v = "async"
          THEN NotifySteps("DISCARD_SESSION", "", SessionMarker(session_id))
          ELSE << >>)
             \o LogTxSteps(Uuid(call, 1), "DISCARD_SESSION", session_id, Null, NoFact, NoFact)

\* discard_session after storage.delete_session returned deleted_ids
DiscardRest(v, call, session_id, deleted_ids) ==
    IF deleted_ids = {} THEN << >>
    ELSE LogTxSteps(Uuid(call, 1), "DISCARD_SESSION", session_id, Null, NoFact, NoFact)
             \o (IF v = "async"
                 THEN NotifySteps("DISCARD_SESSION", "", SessionMarker(session_id))
                 ELSE << >>)

\* whether the body of the call runs under `with self._lock`
Locks(v, op) == v = "async" \/ op # "discard_session"

\* the calls the threads make
ThreadCalls ==
    {[op |-> "commit", fid |-> id, sid |-> "s1", steps |-> 0] : id \in FactIds}
        \cup {[op |-> o, fid |-> "f1", sid |-> Null, steps |-> 0] : o \in {"update", "delete"}}
        \cup {[op |-> o, fid |-> Null, sid |-> "s1", steps |-> 0] :
                o \in {"promote_session", "discard_session"}}
        \cup {[op |-> "rollback", fid |-> Null, sid |-> "s1", steps |-> 1]}

PlanOf(c, st, log, call) ==
    CASE c.op = "commit" /\ "typ" \in DOMAIN c ->
            CommitPlan(st, call, Fact(c.fid, c.typ, c.payload, Null, TsCommit),
                       c.sid, FALSE)
      [] c.op = "commit" /\ "typ" \notin DOMAIN c ->
            CommitPlan(st, call, Fact(c.fid, "note", [k |-> Null, v |-> "v1"], Null, TsCommit),
                       c.sid, TRUE)
      [] c.op = "update" -> UpdatePlan(st, call, c.fid, [v |-> "v2"])
      [] c.op = "delete" -> DeletePlan(st, call, c.sid, c.fid)
      [] c.op = "promote_session" -> PromotePlan(st, call, c.sid, FactIds)
      [] c.op = "discard_session" -> DiscardPlan(c.sid)
      [] c.op = "rollback" -> RollbackPlan(log, c.sid, c.steps)

Cur(t) == thr[t].plan[1]
Running(t) == thr[t].op # "idle" /\ thr[t].plan # << >>
Ended(t, how, pending) ==
    [call |-> thr[t].call, op |-> thr[t].op, sid |-> thr[t].sid, how |-> how,
     ret |-> IF how = "ok" THEN thr[t].ret ELSE Null,
     wrote |-> thr[t].wrote, pending |-> pending]

\* the lock kept by a call that raised
ReleaseOnSuccess(t) == IF lock = t /\ thr[t].outcome = "ok" THEN Null ELSE lock

\* leaving `with self._lock`, by return or by exception
Release(t) == IF lock = t THEN Null ELSE lock

\* a caller enters a call: takes the lock where the call takes it, reads
\* storage, and raises or goes on
BeginFrom(Calls) ==
    \E t \in Threads, c \in Calls :
        LET p == PlanOf(c, store, tx_log, calls + 1)
        IN  /\ thr[t].op = "idle"
            /\ calls < MaxCalls
            /\ Locks(variant, c.op) => lock = Null
            /\ calls' = calls + 1
            /\ IF p.raise # Null
               THEN /\ ended' = [call |-> calls + 1, op |-> c.op, sid |-> c.sid,
                                 how |-> p.raise, ret |-> Null, wrote |-> FALSE,
                                 pending |-> FALSE]
                    /\ UNCHANGED <<thr, lock>>
               ELSE /\ thr' = [thr EXCEPT ![t] =
                                [op |-> c.op, call |-> calls + 1, sid |-> c.sid,
                                 plan |-> p.plan, onfail |-> p.onfail, tmp |-> 0,
                                 wrote |-> FALSE, outcome |-> "ok", ret |-> p.ret]]
                    /\ lock' = IF Locks(variant, c.op) THEN t ELSE lock
                    /\ UNCHANGED ended
            /\ UNCHANGED <<store, tx_log, seq, sink, last, prev, run, scen, registry,
                           variant, hlog, jord, eff>>

Begin == BeginFrom(ThreadCalls)

\* storage.save, delete, delete_session or delete_txs
StorageCall ==
    \E t \in Threads :
        /\ Running(t)
        /\ Cur(t).k \in {"save", "delete", "delete_session", "delete_txs"}
        /\ LET h == Cur(t)
               deleted_ids == IF h.k = "delete_session"
                              THEN DeleteSessionIds(store, h.sid) ELSE {}
               writes == h.k \in {"save", "delete"} \/ deleted_ids # {}
           IN  /\ store' = CASE h.k = "save" -> Save(store, h.doc)
                             [] h.k = "delete" -> StorageDelete(store, h.id)
                             [] h.k = "delete_session" -> DeleteSession(store, h.sid)
                             [] OTHER -> store
               /\ tx_log' = IF h.k = "delete_txs" THEN DeleteTxs(tx_log, h.uuids)
                            ELSE tx_log
               /\ thr' = [thr EXCEPT
                            ![t].plan = IF h.k = "delete_session"
                                        THEN DiscardRest(variant, thr[t].call, h.sid, deleted_ids)
                                        ELSE Tail(@),
                            ![t].ret = IF h.k = "delete_session"
                                       THEN Cardinality(deleted_ids) ELSE @,
                            ![t].wrote = @ \/ writes]
               /\ eff' = IF writes /\ \A i \in 1..Len(eff) : eff[i] # thr[t].call
                         THEN Append(eff, thr[t].call) ELSE eff
        /\ UNCHANGED <<seq, sink, last, prev, run, scen, registry, variant, lock, calls, hlog,
                       jord, ended>>

\* _log_tx: the load of self._seq += 1
SeqLoad ==
    \E t \in Threads :
        /\ Running(t)
        /\ Cur(t).k = "seq_load"
        /\ thr' = [thr EXCEPT ![t].plan = Tail(@), ![t].tmp = seq]
        /\ UNCHANGED <<store, tx_log, seq, sink, last, prev, run, scen, registry, variant, lock,
                       calls, hlog, jord, eff, ended>>

\* _log_tx: the store of self._seq += 1
SeqStore ==
    \E t \in Threads :
        /\ Running(t)
        /\ Cur(t).k = "seq_store"
        /\ seq' = thr[t].tmp + 1
        /\ thr' = [thr EXCEPT ![t].plan = Tail(@)]
        /\ UNCHANGED <<store, tx_log, sink, last, prev, run, scen, registry, variant, lock,
                       calls, hlog, jord, eff, ended>>

\* _log_tx: TxEntry(seq=self._seq, ...) and storage.append_tx
LogAppend ==
    \E t \in Threads :
        /\ Running(t)
        /\ Cur(t).k = "append_tx"
        /\ LET h == Cur(t)
           IN  /\ tx_log' = AppendTx(tx_log,
                                [TxEntry(seq, h.op, h.sid, h.fid, h.before, h.after)
                                    EXCEPT !.uuid = h.uuid])
               /\ jord' = Append(jord, <<thr[t].call, h.fid>>)
        /\ thr' = [thr EXCEPT ![t].plan = Tail(@)]
        /\ UNCHANGED <<store, seq, sink, last, prev, run, scen, registry, variant, lock, calls,
                       hlog, eff, ended>>

\* what is left of the call after a hook returned (ok) or raised: _notify_hooks
\* raises HookError(e) out of its loop, and the call goes to its except
\* HookError branch if it has one
AfterHookNotifyRest(t, ok) ==
    IF ok THEN Tail(thr[t].plan)
    ELSE SelectSeq(Tail(thr[t].plan), LAMBDA h : h.k = "hook") \o thr[t].onfail

AfterHook(t, ok) == IF ok THEN Tail(thr[t].plan) ELSE thr[t].onfail

\* _notify_hooks: one hook invoked; it returns, or it raises and the call goes
\* to its except HookError branch
HookCall ==
    \E t \in Threads, ok \in BOOLEAN :
        /\ Running(t)
        /\ Cur(t).k = "hook"
        /\ LET h == Cur(t)
           IN  hlog' = Append(hlog, [hook |-> h.h, call |-> thr[t].call, op |-> h.op,
                                     fid |-> h.fid, data |-> h.data, ok |-> ok])
        /\ thr' = [thr EXCEPT ![t].plan = AfterHook(t, ok),
                              ![t].onfail = IF ok THEN @ ELSE << >>,
                              ![t].outcome = IF ok THEN @ ELSE "HookError"]
        /\ UNCHANGED <<store, tx_log, seq, sink, last, prev, run, scen, registry, variant, lock,
                       calls, jord, eff, ended>>

\* the call returns or raises; leaving `with self._lock` releases the lock
Return ==
    \E t \in Threads :
        /\ thr[t].op # "idle"
        /\ thr[t].plan = << >>
        /\ ended' = Ended(t, thr[t].outcome, FALSE)
        /\ lock' = Release(t)
        /\ thr' = [thr EXCEPT ![t] = Idle]
        /\ UNCHANGED <<store, tx_log, seq, sink, last, prev, run, scen, registry, variant, calls,
                       hlog, jord, eff>>

\* a task suspended in a storage call or a hook is cancelled: CancelledError
\* is raised at the await, no except clause of the call matches it, and
\* `async with self._lock` releases the lock
Cancel ==
    \E t \in Threads :
        /\ variant = "async"
        /\ Running(t)
        /\ Cur(t).k \notin {"seq_load", "seq_store"}
        /\ ended' = Ended(t, "CancelledError",
                          \E i \in 1..Len(thr[t].plan) :
                              thr[t].plan[i].k \in {"append_tx", "hook"})
        /\ lock' = Release(t)
        /\ thr' = [thr EXCEPT ![t] = Idle]
        /\ UNCHANGED <<store, tx_log, seq, sink, last, prev, run, scen, registry, variant, calls,
                       hlog, jord, eff>>

InitThreads ==
    /\ InitStore
    /\ variant \in Variants

NextThreads ==
    \/ Begin
    \/ StorageCall
    \/ SeqLoad
    \/ SeqStore
    \/ LogAppend
    \/ HookCall
    \/ Return

SpecThreads == InitThreads /\ [][NextThreads]_vars

InitCancel ==
    /\ InitStore
    /\ variant = "async"

NextCancel ==
    \/ NextThreads
    \/ Cancel

SpecCancel == InitCancel /\ [][NextCancel]_vars

\* a backend call (save, delete, delete_session, delete_txs or append_tx) raises
\* instead of taking effect: the calls have no except clause for it (only
\* `except HookError`), so it leaves the call as it is and the lock is released
StorageRaises ==
    \E t \in Threads :
        /\ Running(t)
        /\ Cur(t).k \in {"save", "delete", "delete_session", "delete_txs", "append_tx"}
        /\ ended' = Ended(t, "BackendError",
                          \E i \in 1..Len(thr[t].plan) :
                              thr[t].plan[i].k \in {"append_tx", "hook"})
        /\ lock' = Release(t)
        /\ thr' = [thr EXCEPT ![t] = Idle]
        /\ UNCHANGED <<store, tx_log, seq, sink, last, prev, run, scen, registry, variant, calls,
                       hlog, jord, eff>>

InitFaults ==
    /\ InitStore
    /\ variant = "sync"

NextFaults ==
    \/ NextThreads
    \/ StorageRaises

SpecFaults == InitFaults /\ [][NextFaults]_vars

\* get: storage.load with no store lock, at any moment of any call in progress.
\* The observation keeps the document read and, when a commit or update of
\* that fact has saved and not yet notified every hook, the number of that call.
Get ==
    \E id \in FactIds :
        LET writers == {t \in Threads :
                          /\ thr[t].op \in {"commit", "update"}
                          /\ thr[t].ret = id
                          /\ thr[t].wrote /\ thr[t].outcome = "ok"
                          /\ thr[t].plan # << >>}
        IN  /\ ended' = [call |-> IF writers = {} THEN 0
                                  ELSE thr[CHOOSE t \in writers : TRUE].call,
                         op |-> "get", sid |-> Null, how |-> "ok",
                         ret |-> Load(store, id), wrote |-> FALSE,
                         pending |-> writers # {}, fid |-> id]
            /\ UNCHANGED <<store, tx_log, seq, sink, last, prev, run, scen, registry,
                           variant, lock, thr, calls, hlog, jord, eff>>

InitReaders ==
    /\ InitStore
    /\ variant = "sync"

NextReaders ==
    \/ NextThreads
    \/ Get

SpecReaders == InitReaders /\ [][NextReaders]_vars

\* The calls with every way out of `with self._lock`: return, ValidationFailed,
\* ConflictError, not found, HookError.
LockCalls ==
    {[op |-> "commit", fid |-> "f1", sid |-> "s1", steps |-> 0],
     [op |-> "commit", fid |-> "f1", sid |-> Null, steps |-> 0, typ |-> "user",
      payload |-> [k |-> "a", v |-> "bad"]],
     [op |-> "commit", fid |-> "f2", sid |-> Null, steps |-> 0, typ |-> "config",
      payload |-> [k |-> "a", v |-> "v1"]],
     [op |-> "update", fid |-> "f1", sid |-> Null, steps |-> 0],
     [op |-> "rollback", fid |-> Null, sid |-> "s1", steps |-> 1]}

\* the steps of the calls in progress
Progress ==
    \/ StorageCall
    \/ SeqLoad
    \/ SeqStore
    \/ LogAppend
    \/ HookCall
    \/ Return

NextLocks ==
    \/ BeginFrom(LockCalls)
    \/ Progress

\* a caller inside a call keeps running, and a hook returns or raises
SpecLocks == InitThreads /\ [][NextLocks]_vars /\ WF_vars(Progress)

\* ------------------------------------------------------------------ properties
Unchanged(c) == store = c.pre_store /\ tx_log = c.pre_log /\ c.hooks = 0

\* C1: when commit or update raises HookError, storage is exactly as before the
\* call: every id loads to its previous document, and an id that did not exist
\* is absent from get and from query.
C1_HookFailureRestoresStorage ==
    (last.op \in {"commit", "update"} /\ last.outcome = "HookError") =>
        /\ store = last.pre_store
        /\ \A id \in FactIds :
            /\ Load(store, id) = Load(last.pre_store, id)
            /\ Load(last.pre_store, id) = NoFact =>
                 LET q == StorageQuery(store, Null, {})
                 IN  \A i \in 1..Len(q) : q[i].id # id

C1_Witness ==
    /\ last.op = "commit" /\ last.outcome = "HookError"
    /\ Load(last.pre_store, last.fid) # NoFact
    /\ Load(store, last.fid) = Load(last.pre_store, last.fid)

\* C2: a commit or update that raises HookError leaves no journal entry: the
\* transaction log is the one from before the call.
C2_HookFailureWritesNoJournal ==
    (last.op \in {"commit", "update"} /\ last.outcome = "HookError") =>
        tx_log = last.pre_log

\* C3: when delete or promote_session raises HookError the primary write has
\* been reverted: the targeted fact is present with its content, and every fact
\* of the promoted session is still bound to it.
C3_DeletePromoteReverted ==
    /\ (last.op = "delete" /\ last.outcome = "HookError") =>
          /\ Load(store, last.fid) # NoFact
          /\ Load(store, last.fid) = Load(last.pre_store, last.fid)
    /\ (last.op = "promote_session" /\ last.outcome = "HookError") =>
          \A id \in FactIds :
              LET d == Load(last.pre_store, id)
              IN  (d # NoFact /\ d.session_id = last.sid) => Load(store, id) = d

\* C4: after any sequence of commit, update and delete calls the stored fact of
\* every id (or its absence) is the last state the sink's hook call accepted.
C4_StoreNeverPastSink ==
    \A id \in FactIds : Load(store, id) = sink[id]

\* C7: a commit on an immutable singleton type whose key value matches a live
\* fact raises ConflictError; storage and journal stay as they were and no hook
\* is invoked.
ImmutableMatch(c) ==
    /\ c.op = "commit" /\ ~c.rejected
    /\ c.typ \in DOMAIN Constraints /\ Constraints[c.typ].immutable
    /\ c.payload.k # Null
    /\ \E id \in FactIds :
          LET d == Load(c.pre_store, id)
          IN  d # NoFact /\ d.type = c.typ /\ d.payload.k = c.payload.k

C7_ImmutableConflictNoChange ==
    (ImmutableMatch(last) \/ last.outcome = "ConflictError") =>
        last.outcome = "ConflictError" /\ Unchanged(last)

C7_Witness ==
    ImmutableMatch(last) /\ last.outcome = "ConflictError" /\ store # << >>

\* C8: a commit, or an update whose merged payload, the validator rejects
\* raises ValidationFailed; storage and journal stay as they were and no hook
\* is invoked.
C8_ValidationFailureNoSideEffects ==
    (last.op \in {"commit", "update"} /\ (last.rejected \/ last.outcome = "ValidationFailed")) =>
        last.outcome = "ValidationFailed" /\ Unchanged(last)

C8_Witness ==
    /\ last.op = "update" /\ last.rejected /\ last.outcome = "ValidationFailed"
    /\ Load(store, last.fid) # NoFact

\* C5: for every type with a singleton key and every non-null value of it, at
\* most one live fact of the type carries that value.
KeyFilter(typ, v) == {<< <<"payload", Constraints[typ].singleton_key>>, v >>}

C5_SingletonUnique ==
    \A typ \in DOMAIN Constraints, v \in KeyVals :
        Len(StorageQuery(store, typ, KeyFilter(typ, v))) <= 1

\* C6: two successive successful commits on a mutable singleton type with the
\* same key value return the same id and leave exactly one fact with that key,
\* holding the second commit's validated payload; the second journal entry is
\* an UPDATE whose fact_before is the fact the first commit stored.
SecondOfTwoCommits ==
    /\ prev.set /\ last.op = "commit" /\ last.outcome = "ok"
    /\ last.typ = prev.typ /\ ~Constraints[last.typ].immutable
    /\ last.payload[Constraints[last.typ].singleton_key] = prev.key

C6_TwoCommitsOneFact ==
    SecondOfTwoCommits =>
        /\ last.ret = prev.ret
        /\ Len(StorageQuery(store, last.typ, KeyFilter(last.typ, prev.key))) = 1
        /\ Load(store, last.ret).payload = last.payload
        /\ tx_log[Len(tx_log)].op = "UPDATE"
        /\ tx_log[Len(tx_log)].fact_before = Load(last.pre_store, prev.ret)

\* C9: a rollback(session, n) that returns right after n journal entries that
\* successful commit, update, delete and promote_session calls appended under
\* that session leaves every id as it was before those entries, and the
\* session's journal n entries shorter.
SessionLog(log, session_id) == SelectSeq(log, LAMBDA tx : tx.session_id = session_id)

C9_RollbackUndoesMutations ==
    (last.op = "rollback" /\ last.outcome = "ok" /\ last.expect # NoFact) =>
        /\ StoreMap(store) = last.expect
        /\ Len(SessionLog(tx_log, last.sid))
             = Len(SessionLog(last.pre_log, last.sid)) - last.steps

C9_Witness ==
    /\ last.op = "rollback" /\ last.outcome = "ok" /\ last.expect # NoFact
    /\ last.steps = 2
    /\ StoreMap(store) = last.expect
    /\ StoreMap(last.pre_store) # last.expect
    /\ \E id \in FactIds : last.expect[id] # NoFact

Min(a, b) == IF a < b THEN a ELSE b
Max(a, b) == IF a > b THEN a ELSE b
OtherLog(log, session_id) == SelectSeq(log, LAMBDA tx : tx.session_id # session_id)

C11_RollbackConsumesNewest ==
    last.op = "rollback" =>
        LET before == SessionLog(last.pre_log, last.sid)
            L == Len(before)
            k == Min(Max(last.steps, 0), L)
        IN  /\ last.outcome = "ok" =>
                 SessionLog(tx_log, last.sid) = SubSeq(before, 1, L - k)
            /\ last.steps <= 0 => (last.outcome = "ok" /\ Unchanged(last))
            /\ OtherLog(tx_log, last.sid) = OtherLog(last.pre_log, last.sid)
            /\ \A i \in 1..Len(tx_log) : \E j \in 1..Len(last.pre_log) :
                 tx_log[i] = last.pre_log[j]
            /\ Len(tx_log) <= Len(last.pre_log)

C11_Witness ==
    /\ last.op = "rollback" /\ last.outcome = "ok"
    /\ last.steps > Len(SessionLog(last.pre_log, last.sid))
    /\ Len(SessionLog(last.pre_log, last.sid)) = 1
    /\ SessionLog(tx_log, last.sid) = << >>
    /\ OtherLog(tx_log, last.sid) # << >>
    /\ last.hooks = 1

\* C12: update or delete of a fact id that storage does not hold, one deleted
\* earlier included, raises the not-found error; storage and journal stay as
\* they were and no hook is invoked.
C12_AbsentIdNotFound ==
    (/\ last.op \in {"update", "delete"}
     /\ (Load(last.pre_store, last.fid) = NoFact \/ last.outcome = "NotFound")) =>
        /\ Load(last.pre_store, last.fid) = NoFact
        /\ last.outcome = "NotFound"
        /\ Unchanged(last)

C12_Witness ==
    /\ last.op = "delete" /\ last.outcome = "NotFound"
    /\ \E i \in 1..Len(tx_log) :
          tx_log[i].op = "DELETE" /\ tx_log[i].fact_id = last.fid

\* C13: in both stores a caller that is inside the critical section of a
\* mutation, from its first storage access to its last journal append or hook
\* call, holds the store's lock, so at most one caller is inside one.
Critical(t) ==
    /\ Running(t)
    /\ thr[t].op = "discard_session" => Cur(t).k # "delete_session"

C13_LockHeldInCriticalSection ==
    /\ \A t \in Threads : Critical(t) => lock = t
    /\ Cardinality({t \in Threads : Critical(t)}) <= 1

\* C14: the seq values of the journal strictly increase in insertion order
\* (so they are pairwise distinct), and two calls that both wrote storage and
\* both journaled did so in the same order, however the callers interleave.
FirstWrite(call) == CHOOSE i \in 1..Len(eff) : eff[i] = call
FirstAppend(call) ==
    CHOOSE i \in 1..Len(jord) :
        jord[i][1] = call /\ \A j \in 1..(i - 1) : jord[j][1] # call
Journaled == {jord[i][1] : i \in 1..Len(jord)} \cap {eff[i] : i \in 1..Len(eff)}

C14_JournalOrder ==
    /\ \A i, j \in 1..Len(tx_log) : i < j => tx_log[i].seq < tx_log[j].seq
    /\ \A a, b \in Journaled :
          FirstWrite(a) < FirstWrite(b) => FirstAppend(a) < FirstAppend(b)

\* C15: whenever the store notifies its hooks of an operation, the hooks are
\* invoked one after the other in registration order with the same
\* (op, fact_id, fact): a hook is invoked only right after the hook
\* registered before it returned from the same notification, and a hook that
\* returned is followed by the next registered hook before anything else;
\* and each hook sees the journaled operations in the order of their
\* journal entries.
Emitted(i) == <<hlog[i].call, hlog[i].fid>>
JournalPos(e) == CHOOSE i \in 1..Len(jord) : jord[i] = e /\ \A j \in 1..(i - 1) : jord[j] # e
InJournal(e) == \E i \in 1..Len(jord) : jord[i] = e

C15_HooksInOrder ==
    /\ \A i \in 1..Len(hlog) :
          hlog[i].hook > 1 =>
              /\ i > 1
              /\ hlog[i - 1] = [hlog[i] EXCEPT !.hook = @ - 1, !.ok = TRUE]
    /\ \A i \in 1..Len(hlog) :
          (hlog[i].ok /\ hlog[i].hook < Len(Hooks)) =>
              IF i < Len(hlog)
              THEN hlog[i + 1] = [hlog[i] EXCEPT !.hook = @ + 1, !.ok = hlog[i + 1].ok]
              ELSE \E t \in Threads :
                      /\ Running(t) /\ thr[t].call = hlog[i].call
                      /\ Cur(t) = PHook(hlog[i].hook + 1, hlog[i].op, hlog[i].fid,
                                        hlog[i].data)
    /\ \A i, j \in 1..Len(hlog) :
          (/\ i < j /\ hlog[i].hook = hlog[j].hook
           /\ InJournal(Emitted(i)) /\ InJournal(Emitted(j))) =>
              JournalPos(Emitted(i)) <= JournalPos(Emitted(j))

C15_Witness ==
    /\ Len(hlog) = 2 * Len(Hooks)
    /\ \A i \in 1..Len(hlog) : hlog[i].ok /\ InJournal(Emitted(i))
    /\ hlog[1].call # hlog[Len(hlog)].call
    /\ hlog[Len(hlog)].hook = Len(Hooks)

\* C16: in the cooperative store no call that has written storage ends by
\* cancellation with its journal append or its hook notifications left
\* undone: a cancellation delivered inside the critical section waits until
\* the call has completed or failed on its own.
C16_CancellationDeferred ==
    ended.how = "CancelledError" => ~(ended.wrote /\ ended.pending)

\* C17: discard_session(s) removes exactly the facts whose session_id is s and
\* returns their number; every other fact, durable or bound to another
\* session, is as before, and query(session_id=s) is empty afterwards.
BoundTo(st, session_id) ==
    {id \in FactIds : Load(st, id) # NoFact /\ Load(st, id).session_id = session_id}

C17_DiscardRemovesSessionFacts ==
    last.op = "discard_session" =>
        /\ last.outcome = "ok"
        /\ last.ret = Cardinality(BoundTo(last.pre_store, last.sid))
        /\ \A id \in FactIds :
              Load(store, id) = IF id \in BoundTo(last.pre_store, last.sid)
                                THEN NoFact ELSE Load(last.pre_store, id)
        /\ StorageQuery(store, Null, {<< <<"session_id">>, last.sid >>}) = << >>

C17_Witness ==
    /\ last.op = "discard_session" /\ last.ret = 1
    /\ \E id \in FactIds :
          /\ Load(store, id) # NoFact
          /\ Load(store, id).session_id \in TwoSessions \ {last.sid}

\* C18: every discard_session(s) call, one on a session without facts
\* included, appends exactly one journal entry: op DISCARD_SESSION, session s,
\* null fact_id.
C18_DiscardJournalsOneEntry ==
    last.op = "discard_session" =>
        /\ Len(tx_log) = Len(last.pre_log) + 1
        /\ SubSeq(tx_log, 1, Len(last.pre_log)) = last.pre_log
        /\ tx_log[Len(tx_log)].op = "DISCARD_SESSION"
        /\ tx_log[Len(tx_log)].session_id = last.sid
        /\ tx_log[Len(tx_log)].fact_id = Null

\* C19: in both stores a discard_session(s) that removed facts and returned
\* has invoked every registered hook exactly once, with op DISCARD_SESSION and
\* a marker fact whose session_id is s.
Notified(call, h) == {i \in 1..Len(hlog) : hlog[i].call = call /\ hlog[i].hook = h}

C19_DiscardNotifiesHooks ==
    (ended.op = "discard_session" /\ ended.how = "ok" /\ ended.ret > 0) =>
        \A h \in 1..Len(Hooks) :
            /\ Cardinality(Notified(ended.call, h)) = 1
            /\ \A i \in Notified(ended.call, h) :
                  /\ hlog[i].op = "DISCARD_SESSION"
                  /\ hlog[i].data.session_id = ended.sid

\* C20: a promote_session(s, selector) that returns clears session_id on
\* exactly the facts bound to s that the selector accepts and changes nothing
\* else of them, returns exactly their ids, appends one PROMOTE entry per
\* promoted fact and leaves the rejected facts bound to s; a later
\* discard_session(s) keeps the promoted facts.
Promoted(log, session_id, id) ==
    \E i \in 1..Len(log) :
        log[i].op = "PROMOTE" /\ log[i].session_id = session_id /\ log[i].fact_id = id

C20_PromoteClearsBinding ==
    /\ (last.op = "promote_session" /\ last.outcome = "ok") =>
          LET accepted == BoundTo(last.pre_store, last.sid) \cap last.selector
              n == Len(last.ret)
          IN  /\ Cardinality(accepted) = n
              /\ {last.ret[i] : i \in 1..n} = accepted
              /\ \A id \in FactIds :
                    Load(store, id) =
                        IF id \in accepted
                        THEN [Load(last.pre_store, id) EXCEPT !.session_id = Null]
                        ELSE Load(last.pre_store, id)
              /\ Len(tx_log) = Len(last.pre_log) + n
              /\ SubSeq(tx_log, 1, Len(last.pre_log)) = last.pre_log
              /\ \A i \in 1..n :
                    LET tx == tx_log[Len(last.pre_log) + i]
                    IN  /\ tx.op = "PROMOTE" /\ tx.session_id = last.sid
                        /\ tx.fact_id = last.ret[i]
    /\ last.op = "discard_session" =>
          \A id \in FactIds :
              (/\ Promoted(last.pre_log, last.sid, id)
               /\ Load(last.pre_store, id) # NoFact
               /\ Load(last.pre_store, id).session_id = Null) =>
                  Load(store, id) = Load(last.pre_store, id)

C20_Witness ==
    /\ last.op = "discard_session" /\ last.ret = 1 /\ store # << >>
    /\ \E id \in FactIds :
          /\ Promoted(last.pre_log, last.sid, id)
          /\ Load(store, id) # NoFact
          /\ Load(store, id).session_id = Null

\* one call run from entry to exit with no other caller in between; failAt is
\* the number of the hook invocation that raises (0: none)
RECURSIVE RunPlan(_, _, _)
RunPlan(v, s, failAt) ==
    IF s.plan = << >> THEN [s EXCEPT !.onfail = << >>]
    ELSE
    LET h == s.plan[1]
        rest == Tail(s.plan)
    IN
    CASE h.k = "save" ->
            RunPlan(v, [s EXCEPT !.store = Save(@, h.doc), !.plan = rest], failAt)
      [] h.k = "delete" ->
            RunPlan(v, [s EXCEPT !.store = StorageDelete(@, h.id), !.plan = rest], failAt)
      [] h.k = "delete_session" ->
            LET deleted_ids == DeleteSessionIds(s.store, h.sid)
            IN  RunPlan(v, [s EXCEPT !.store = DeleteSession(@, h.sid),
                                     !.plan = DiscardRest(v, s.call, h.sid, deleted_ids),
                                     !.ret = Cardinality(deleted_ids)], failAt)
      [] h.k = "delete_txs" ->
            RunPlan(v, [s EXCEPT !.tx_log = DeleteTxs(@, h.uuids), !.plan = rest], failAt)
      [] h.k = "seq_load" -> RunPlan(v, [s EXCEPT !.plan = rest], failAt)
      [] h.k = "seq_store" -> RunPlan(v, [s EXCEPT !.seq = @ + 1, !.plan = rest], failAt)
      [] h.k = "append_tx" ->
            RunPlan(v, [s EXCEPT
                          !.tx_log = AppendTx(@, [TxEntry(s.seq, h.op, h.sid, h.fid,
                                                          h.before, h.after)
                                                     EXCEPT !.uuid = h.uuid]),
                          !.plan = rest], failAt)
      [] h.k = "hook" ->
            LET ok == s.n + 1 # failAt
            IN  RunPlan(v, [s EXCEPT
                              !.hooks = Append(@, [hook |-> h.h, op |-> h.op, fid |-> h.fid,
                                                   data |-> h.data, ok |-> ok]),
                              !.n = @ + 1,
                              !.plan = IF ok THEN rest ELSE s.onfail,
                              !.onfail = IF ok THEN @ ELSE << >>,
                              !.outcome = IF ok THEN @ ELSE "HookError"], failAt)

RunCall(v, c, st, log, sq, failAt) ==
    LET p == PlanOf(c, st, log, 1)
        s0 == [store |-> st, tx_log |-> log, seq |-> sq, hooks |-> << >>, n |-> 0,
               call |-> 1, plan |-> p.plan, onfail |-> p.onfail,
               outcome |-> IF p.raise = Null THEN "ok" ELSE p.raise, ret |-> p.ret]
    IN  IF p.raise # Null THEN [s0 EXCEPT !.plan = << >>, !.onfail = << >>, !.ret = Null]
        ELSE RunPlan(v, s0, failAt)

Quiet == \A t \in Threads : thr[t].op = "idle"

\* C21: MemoryStore and AsyncMemoryStore are functionally identical: from the
\* same state, the same call with the same hook outcomes leaves the same storage
\* contents, the same journal entries and the same sequence of hook
\* notifications in both.
C21_SyncAsyncIdentical ==
    Quiet =>
        \A c \in ThreadCalls, failAt \in 0..Len(Hooks) :
            LET a == RunCall("sync", c, store, tx_log, seq, failAt)
                b == RunCall("async", c, store, tx_log, seq, failAt)
            IN  /\ a.store = b.store
                /\ a.tx_log = b.tx_log
                /\ a.hooks = b.hooks

\* the journal entries that reference a fact id, oldest first
EntriesOf(log, id) == SelectSeq(log, LAMBDA e : e.fact_id = id)

\* C22: for every fact id the journal entries referencing it are a replayable
\* history: the fact_after of the newest entry referencing the id equals what
\* get(id) returns now (null once the fact is removed).
C22_JournalReplayable ==
    \A id \in FactIds :
        LET es == EntriesOf(tx_log, id)
        IN  es # << >> => es[Len(es)].fact_after = Load(store, id)

\* C23: when a backend call raises during a mutation after the fact was written
\* (the journal append raises after save succeeded), the call does not end with
\* the write in storage while its journal entry or hook notifications are
\* missing: the write has been restored.
C23_StorageFailureRestores ==
    ended.how = "BackendError" => ~(ended.wrote /\ ended.pending)

\* the value a payload field holds once the type's schema validated it
Validated(typename, f, x) ==
    IF typename \in Schemas /\ f = "v" THEN ModelValidate([k |-> Null, v |-> x]).v ELSE x

UpdateKeeps(old, new, patch) ==
    /\ \A f \in DOMAIN old.payload \ DOMAIN patch : new.payload[f] = old.payload[f]
    /\ new.id = old.id /\ new.type = old.type /\ new.source = old.source
    /\ new.session_id = old.session_id

C25_CommitOpMatchesBinding ==
    (last.op = "commit" /\ last.outcome = "ok") =>
        LET entry == tx_log[Len(tx_log)]
            created == Load(store, last.ret)
        IN  /\ entry.op = "COMMIT" =>
                  created.session_id = Null /\ entry.fact_after.session_id = Null
            /\ entry.op = "COMMIT_EPHEMERAL" =>
                  created.session_id # Null /\ entry.fact_after.session_id # Null

\* C26: an UPDATE, made by update() or by a repeated commit that resolves to an
\* existing fact (by id or by singleton key), leaves the fact in the same
\* lifecycle state: its session_id after the call is its session_id before.
C26_UpdateKeepsBinding ==
    (/\ last.op \in {"commit", "update"} /\ last.outcome = "ok"
     /\ tx_log[Len(tx_log)].op = "UPDATE") =>
        LET entry == tx_log[Len(tx_log)]
        IN  /\ entry.fact_before # NoFact
            /\ entry.fact_after.session_id = entry.fact_before.session_id
            /\ Load(store, last.ret).session_id = entry.fact_before.session_id

\* the notifications made by one call, in the order made
HooksOf(call) == SelectSeq(hlog, LAMBDA e : e.call = call)

\* C27: when the k-th of the hooks raises during commit or update, the hooks
\* after k are not invoked, the hooks before k were notified once and get no
\* compensating notification, the fact is back in its state from before the
\* call (or a discard_session journaled after the call has removed it since),
\* and the call raises HookError.
C27_HookFailureStopsNotifying ==
    (/\ Quiet /\ ended.op \in {"commit", "update"}
     /\ \E i \in 1..Len(hlog) : hlog[i].call = ended.call /\ ~hlog[i].ok) =>
        LET mine == HooksOf(ended.call)
            k == Len(mine)
            entry == CHOOSE e \in {tx_log[i] : i \in 1..Len(tx_log)} :
                        e.uuid = Uuid(ended.call, 1)
        IN  /\ ended.how = "HookError"
            /\ k <= Len(Hooks)
            /\ \A i \in 1..k :
                  /\ mine[i].hook = i
                  /\ mine[i].ok = (i < k)
                  /\ mine[i].op = mine[1].op /\ mine[i].fid = mine[1].fid
            /\ \E i \in 1..Len(tx_log) : tx_log[i].uuid = Uuid(ended.call, 1)
            /\ \/ Load(store, entry.fact_id) = entry.fact_before
               \/ /\ Load(store, entry.fact_id) = NoFact
                  /\ \E i, j \in 1..Len(tx_log) :
                        /\ tx_log[i] = entry /\ i < j
                        /\ tx_log[j].op = "DISCARD_SESSION"
                        /\ tx_log[j].session_id = entry.fact_after.session_id

C27_Witness ==
    /\ Quiet /\ ended.op = "update" /\ ended.how = "HookError"
    /\ Len(HooksOf(ended.call)) = 2
    /\ HooksOf(ended.call)[1].ok /\ ~HooksOf(ended.call)[2].ok
    /\ Load(store, "f1") # NoFact /\ Load(store, "f1").payload.v = "v1"

\* the entries a rollback call fetched, newest first
Consumed(c) == GetTxLog(c.pre_log, c.sid, c.steps)
ConsumedOn(c, id) == SelectSeq(Consumed(c), LAMBDA e : e.fact_id = id)

\* a rollback that returned and whose range includes a DISCARD_SESSION entry
OverDiscard(c) ==
    /\ c.op = "rollback" /\ c.outcome = "ok" /\ c.steps >= 1
    /\ \E i \in 1..Len(Consumed(c)) : Consumed(c)[i].op = "DISCARD_SESSION"

\* the facts the newest DISCARD_SESSION entry of the session stands for: bound
\* to the session by the last entry before it, not referenced since, and absent
RemovedByDiscard(c) ==
    LET log == c.pre_log
        at == {j \in 1..Len(log) :
                  log[j].op = "DISCARD_SESSION" /\ log[j].session_id = c.sid}
        d == CHOOSE j \in at : \A j2 \in at : j2 <= j
    IN  {id \in FactIds :
            /\ Load(c.pre_store, id) = NoFact
            /\ \A j \in (d + 1)..Len(log) : log[j].fact_id # id
            /\ \E j \in 1..(d - 1) :
                  /\ log[j].fact_id = id
                  /\ \A j2 \in (j + 1)..(d - 1) : log[j2].fact_id # id
                  /\ log[j].fact_after # NoFact
                  /\ log[j].fact_after.session_id = c.sid}

\* every other entry of the range is inverted (a fact is left as the oldest
\* consumed entry referencing it found it), no other fact is touched, and the
\* consumed entries, the DISCARD_SESSION one included, are gone from the journal
OthersInverted(c) ==
    /\ \A id \in FactIds :
          LET es == ConsumedOn(c, id)
          IN  Load(store, id) = IF es = << >> THEN Load(c.pre_store, id)
                                ELSE es[Len(es)].fact_before
    /\ tx_log = SelectSeq(c.pre_log,
                          LAMBDA e : \A i \in 1..Len(Consumed(c)) : Consumed(c)[i] # e)

\* C28 as stated: rollback does not invert a DISCARD_SESSION entry: the facts
\* removed by discard_session stay absent after a rollback whose range includes
\* the entry, the other entries of the range are inverted and every consumed
\* entry is removed from the journal.
C28_RollbackSkipsDiscard ==
    OverDiscard(last) =>
        /\ \A id \in RemovedByDiscard(last) : Load(store, id) = NoFact
        /\ OthersInverted(last)

\* C28, amended: rollback does not invert a DISCARD_SESSION entry: a fact
\* removed by discard_session stays absent after a rollback whose range includes
\* the entry unless an older entry of the range referencing that fact has a
\* fact_before, which inverting that entry restores; the other entries of the
\* range are inverted and every consumed entry is removed from the journal.
C28_RollbackSkipsDiscardEntry ==
    OverDiscard(last) =>
        /\ \A id \in RemovedByDiscard(last) :
              \/ Load(store, id) = NoFact
              \/ \E i \in 1..Len(Consumed(last)) :
                    /\ Consumed(last)[i].fact_id = id
                    /\ Consumed(last)[i].fact_before = Load(store, id)
        /\ OthersInverted(last)

C28_Witness ==
    /\ OverDiscard(last) /\ last.steps = 2
    /\ RemovedByDiscard(last) # {}
    /\ \A id \in RemovedByDiscard(last) : Load(store, id) = NoFact
    /\ store # last.pre_store
    /\ \A i \in 1..Len(tx_log) : tx_log[i].op # "DISCARD_SESSION"

\* C29: when a hook raises during discard_session the call raises HookError to
\* its caller and nothing is undone: the session's facts stay deleted and the
\* DISCARD_SESSION entry of the call stays in the journal.
C29_DiscardHookFailureReported ==
    (/\ Quiet /\ ended.op = "discard_session"
     /\ \E i \in 1..Len(hlog) : hlog[i].call = ended.call /\ ~hlog[i].ok) =>
        /\ ended.how = "HookError"
        /\ BoundTo(store, ended.sid) = {}
        /\ \E i \in 1..Len(tx_log) :
              /\ tx_log[i].uuid = Uuid(ended.call, 1)
              /\ tx_log[i].op = "DISCARD_SESSION"
              /\ tx_log[i].session_id = ended.sid

C29_Witness ==
    /\ Quiet /\ ended.op = "discard_session" /\ ended.how = "HookError"
    /\ ended.wrote
    /\ \E i \in 1..Len(hlog) :
          hlog[i].call = ended.call /\ ~hlog[i].ok /\ hlog[i].op = "DISCARD_SESSION"
    /\ BoundTo(store, ended.sid) = {}
    /\ tx_log # << >> /\ tx_log[Len(tx_log)].op = "DISCARD_SESSION"

\* the live facts the singleton lookup of a commit finds
LookupMatches(c) ==
    {id \in FactIds :
        LET d == Load(c.pre_store, id)
        IN  d # NoFact /\ d.type = c.typ /\ d.payload.k = c.payload.k}

\* C30: when the singleton lookup of a commit finds more than one live fact
\* with the same (type, key value), the commit fails with an error and changes
\* no state: storage and journal stay as they were and no hook is invoked.
C30_AmbiguousSingletonFails ==
    (/\ last.op = "commit" /\ ~last.rejected
     /\ last.typ \in DOMAIN Constraints /\ last.payload.k # Null
     /\ Cardinality(LookupMatches(last)) > 1) =>
        /\ last.outcome \notin {"ok", "HookError"}
        /\ Unchanged(last)

\* a rollback call run step by step from a given state, no hook raising
RunRollback(st, log, sq, session_id, steps) ==
    LET p == RollbackPlan(log, session_id, steps)
    IN  RunPlan("sync",
                [store |-> st, tx_log |-> log, seq |-> sq, hooks |-> << >>, n |-> 0,
                 call |-> 1, plan |-> p.plan, onfail |-> p.onfail, outcome |-> "ok",
                 ret |-> p.ret],
                0)

\* the notification the inverse of one journal entry gives every hook
InverseNotice(e) ==
    IF e.op \in {"COMMIT", "COMMIT_EPHEMERAL", "UPDATE", "PROMOTE"} /\ e.fact_before # NoFact
    THEN <<[op |-> "UPDATE", fid |-> e.fact_id, data |-> e.fact_before]>>
    ELSE IF e.op \in {"COMMIT", "COMMIT_EPHEMERAL"} /\ e.fact_id # Null
    THEN <<[op |-> "DELETE", fid |-> e.fact_id, data |-> NoFact]>>
    ELSE IF e.op = "DELETE" /\ e.fact_before # NoFact
    THEN <<[op |-> "COMMIT", fid |-> e.fact_id, data |-> e.fact_before]>>
    ELSE << >>

RECURSIVE InverseNotices(_, _)
InverseNotices(logs, i) ==
    IF i > Len(logs) THEN << >>
    ELSE LET one == InverseNotice(logs[i])
         IN  (IF one = << >> THEN << >>
              ELSE [h \in 1..Len(Hooks) |->
                        [hook |-> h, op |-> one[1].op, fid |-> one[1].fid,
                         data |-> one[1].data, ok |-> TRUE]])
                 \o InverseNotices(logs, i + 1)

\* C31: a rollback that returns has inverted the selected entries newest first,
\* and each inverted entry gave every hook exactly one notification, in journal
\* order newest first: UPDATE with the restored fact where fact_before was
\* restored over a COMMIT, COMMIT_EPHEMERAL, UPDATE or PROMOTE entry, DELETE
\* with a null fact where a created fact was removed, COMMIT with the recreated
\* fact where a DELETE entry was inverted.
C31_RollbackNotifiesPerEntry ==
    (last.op = "rollback" /\ last.outcome = "ok" /\ last.steps >= 1) =>
        LET r == RunRollback(last.pre_store, last.pre_log, seq, last.sid, last.steps)
        IN  /\ r.hooks = InverseNotices(Consumed(last), 1)
            /\ r.store = store
            /\ r.tx_log = tx_log
            /\ Len(r.hooks) = Len(Hooks) * last.hooks

C31_Witness ==
    /\ last.op = "rollback" /\ last.outcome = "ok" /\ last.steps = 2
    /\ LET r == RunRollback(last.pre_store, last.pre_log, seq, last.sid, last.steps)
       IN  /\ Len(r.hooks) = 2 * Len(Hooks)
           /\ r.hooks[1].op = "COMMIT" /\ r.hooks[1].data # NoFact
           /\ r.hooks[Len(r.hooks)].op \in {"UPDATE", "DELETE"}
           /\ r.store = store

\* C32: right after a commit or update that returned, a fact whose type has a
\* registered model holds a payload that is the model's normalized output: the
\* model registered at that moment accepts it and returns it as it is.
\* register_schema replaced the model without touching a stored fact or the
\* journal.
C32_StoredPayloadValidated ==
    /\ (/\ last.op \in {"commit", "update"} /\ last.outcome = "ok"
        /\ Load(store, last.ret).type \in DOMAIN registry) =>
          LET d == Load(store, last.ret)
          IN  ValidateWith(registry[d.type], d.payload) = d.payload
    /\ last.op = "register_schema" =>
          /\ store = last.pre_store
          /\ tx_log = last.pre_log
          /\ last.hooks = 0

\* a commit under the re-registered model, beside a fact stored under the
\* former model that the new model rejects
C32_Witness ==
    /\ last.op = "commit" /\ last.outcome = "ok"
    /\ registry["user"] = "lax"
    /\ Load(store, last.ret).payload.v = "v1"
    /\ \E id \in FactIds \ {last.ret} :
          /\ Load(store, id) # NoFact
          /\ ValidateWith(registry[Load(store, id).type], Load(store, id).payload)
                = ValidationFailed

\* C33: a get running during a commit or update never returns a state of the
\* fact that hook-failure compensation reverts afterwards: no call whose write
\* a reader has seen ends its compensation with the fact in another state.
C33_NoDirtyRead ==
    ~ \E t \in Threads :
        /\ ended.op = "get" /\ ended.pending
        /\ thr[t].call = ended.call
        /\ thr[t].outcome = "HookError" /\ thr[t].plan = << >>
        /\ Load(store, ended.fid) # ended.ret

C35_JournalChained ==
    \A id \in FactIds :
        LET es == EntriesOf(tx_log, id)
        IN  \A i \in 1..(Len(es) - 1) : es[i + 1].fact_before = es[i].fact_after

\* C36: a rollback in which a hook raises part-way is all-or-nothing: either
\* every selected entry has been inverted in storage and removed from the
\* journal, or storage and journal are both exactly as before the call.
C36_RollbackAllOrNothing ==
    (last.op = "rollback" /\ last.outcome = "HookError") =>
        \/ store = last.pre_store /\ tx_log = last.pre_log
        \/ OthersInverted(last)

\* C37: rollback(s, n) changes only facts whose most recent journal entry
\* belongs to session s: a fact it overwrote or deleted was last journaled
\* under s.
C37_RollbackStaysInSession ==
    last.op = "rollback" =>
        \A id \in FactIds :
            Load(store, id) # Load(last.pre_store, id) =>
                LET es == EntriesOf(last.pre_log, id)
                IN  es # << >> /\ es[Len(es)].session_id = last.sid

\* C38: every journal entry that references a fact is recorded under that
\* fact's own session binding: the session_id of fact_before for DELETE and
\* PROMOTE entries, the session_id of fact_after for the others.
C38_EntryUnderFactSession ==
    \A i \in 1..Len(tx_log) :
        LET e == tx_log[i]
        IN  e.fact_id # Null =>
                e.session_id = IF e.op \in {"DELETE", "PROMOTE"}
                               THEN e.fact_before.session_id
                               ELSE e.fact_after.session_id

\* C39: a live fact of a type registered with an immutable singleton
\* constraint never changes its payload: whatever a call did, a fact of such a
\* type that was live before the call and is live after it has the payload it
\* had.
C39_ImmutablePayloadFixed ==
    \A id \in FactIds :
        LET old == Load(last.pre_store, id)
            new == Load(store, id)
        IN  (/\ last.op # "init" /\ old # NoFact /\ new # NoFact
             /\ old.type \in DOMAIN Constraints /\ Constraints[old.type].immutable) =>
                new.payload = old.payload

====
